---- MODULE Spec2Model ----
(***************************************************************************)
(* A model of github.com/gin-generator/logger: the Logger facade           *)
(* (logger.go), its functional options and NewLogger (option part of       *)
(* gorm.go), and the gorm logging adapter GormLogger (gorm.go).            *)
(*                                                                         *)
(* The zap engine and the lumberjack sink are collaborators.  A zap logger *)
(* is a record [level, file, callerSkip]; a log call on it yields one      *)
(* record [level, msg, fields, caller, enabled, file, day], `enabled'      *)
(* telling whether the core's minimum level lets the record through.       *)
(* A Go call stack is a sequence of frames, innermost first.               *)
(***************************************************************************)
EXTENDS Integers, Sequences, FiniteSets, TLC

VARIABLES
    pc,       \* "start" | "ready" | "panicked" | "exited"
    opts,     \* the option list handed to NewLogger
    l,        \* the *Logger NewLogger returned (Nil before the call)
    diag,     \* lines custom() printed to standard output
    today,    \* the calendar date time.Now() falls on
    call,     \* the last facade/adapter call: [fn, ...inputs]
    recs,     \* the records that call handed to the zap logger, in order
    g,        \* the *GormLogger NewGormLogger returned (Nil before the call)
    heap,     \* SpecOnce: the Logger objects, by address: [obj, builds]
    th        \* SpecOnce: each calling goroutine's position

vars == <<pc, opts, l, diag, today, call, recs, g, heap, th>>

\* A nil pointer (a *Logger, *zap.Logger or *GormLogger that is not set).
Nil == [nil |-> TRUE]

\* A nil error; a non-nil error is the chain errors.Is unwraps, outermost first.
NoErr == <<>>

\* The text that names no zapcore.Level.
NoLevel == "invalid"

(***************************************************************************)
(* Bounds of the model.                                                    *)
(***************************************************************************)
MaxOpts == 2        \* longest option list handed to NewLogger
MaxDay == 1         \* calendar-day changes that are followed

(***************************************************************************)
(* Stack frames.  file is the kind of source file runtime.Caller reports:  *)
(*   "pkg"     a non-test file of this package (logger.go, gorm.go)        *)
(*   "test"    a file whose name ends in _test.go                          *)
(*   "gorm"    a file under gorm.io/gorm                                   *)
(*   "zapgorm" a file under moul.io/zapgorm2                               *)
(*   "app"     application code                                            *)
(*   "std"     the Go runtime and standard library, zap                    *)
(***************************************************************************)
Frame(file, fn) == [file |-> file, fn |-> fn]

NoCaller == Frame("undefined", "undefined")

UserStacks ==
    { <<Frame("app", "main.handler"), Frame("std", "runtime.main")>>,
      <<Frame("test", "TestNewLogger"), Frame("std", "testing.tRunner")>> }

(***************************************************************************)
(* zapcore.Level and its text form.                                        *)
(***************************************************************************)
LevelRank(name) ==
    CASE name = "debug" -> -1
      [] name = "info" -> 0
      [] name = "warn" -> 1
      [] name = "error" -> 2
      [] name = "dpanic" -> 3
      [] name = "panic" -> 4
      [] name = "fatal" -> 5

ToLower(s) ==
    CASE s = "Error" -> "error"
      [] s = "WARN" -> "warn"
      [] OTHER -> s

\* zapcore.Level.unmarshalText: the switch over the accepted spellings.
unmarshalText(s) ==
    CASE s \in {"debug", "DEBUG"} -> "debug"
      [] s \in {"info", "INFO", ""} -> "info"
      [] s \in {"warn", "WARN"} -> "warn"
      [] s \in {"error", "ERROR"} -> "error"
      [] s \in {"dpanic", "DPANIC"} -> "dpanic"
      [] s \in {"panic", "PANIC"} -> "panic"
      [] s \in {"fatal", "FATAL"} -> "fatal"
      [] OTHER -> NoLevel

\* level.UnmarshalText([]byte(l.level)): the text as given, then lower-cased.
UnmarshalText(s) ==
    IF unmarshalText(s) # NoLevel THEN unmarshalText(s)
    ELSE unmarshalText(ToLower(s))

(***************************************************************************)
(* Dates and the log file name.                                            *)
(***************************************************************************)
StartDate == [y |-> 2024, m |-> 12, d |-> 31]

DaysIn(m) == IF m \in {4, 6, 9, 11} THEN 30 ELSE IF m = 2 THEN 28 ELSE 31

NextDate(t) ==
    IF t.d < DaysIn(t.m) THEN [t EXCEPT !.d = t.d + 1]
    ELSE IF t.m < 12 THEN [t EXCEPT !.m = t.m + 1, !.d = 1]
    ELSE [y |-> t.y + 1, m |-> 1, d |-> 1]

RECURSIVE Digits(_, _)
\* n in decimal, zero-padded to w digits.
Digits(n, w) == IF w = 0 THEN <<>> ELSE Append(Digits(n \div 10, w - 1), n % 10)

\* time.Now().Format("logs-2006-01-02.log")
FormatLogName(t) ==
    <<"logs-">> \o Digits(t.y, 4) \o <<"-">> \o Digits(t.m, 2) \o <<"-">>
        \o Digits(t.d, 2) \o <<".log">>

RECURSIVE ReplaceAll(_, _, _)
\* strings.ReplaceAll over a path held as a sequence of pieces.
ReplaceAll(s, old, new) ==
    IF s = <<>> THEN <<>>
    ELSE (IF Head(s) = old THEN new ELSE <<Head(s)>>) \o ReplaceAll(Tail(s), old, new)

(***************************************************************************)
(* The Logger struct, its defaults and its options.                        *)
(***************************************************************************)
newDefaultLogger ==
    [ fileName  |-> <<"logs/", "logs.log">>,
      maxSize   |-> 100,
      maxBackup |-> 7,
      maxAge    |-> 30,
      compress  |-> FALSE,
      level     |-> "info",
      localTime |-> TRUE,
      once      |-> [done |-> FALSE, m |-> 0],
      Log       |-> Nil ]

WithFileName(lg, v) == [lg EXCEPT !.fileName = v]
WithMaxSize(lg, v) == [lg EXCEPT !.maxSize = v]
WithMaxBackup(lg, v) == [lg EXCEPT !.maxBackup = v]
WithMaxAge(lg, v) == [lg EXCEPT !.maxAge = v]
WithCompress(lg, v) == [lg EXCEPT !.compress = v]
WithLevel(lg, v) == [lg EXCEPT !.level = v]
WithTimeZone(lg, v) == [lg EXCEPT !.localTime = v]

LevelTexts == {"debug", "info", "warn", "error", "fatal", "Error", "verbose"}

Options ==
    { [kind |-> "WithFileName", path |-> p] : p \in {<<"test.log">>, <<"app/", "logs.log">>} }
    \cup { [kind |-> k, n |-> 5] : k \in {"WithMaxSize", "WithMaxBackup", "WithMaxAge"} }
    \cup { [kind |-> "WithCompress", b |-> b] : b \in BOOLEAN }
    \cup { [kind |-> "WithTimeZone", b |-> FALSE] }
    \cup { [kind |-> "WithLevel", s |-> s] : s \in LevelTexts }

OptionLists == UNION { [1..n -> Options] : n \in 0..MaxOpts }

\* opt.apply(logger)
apply(lg, o) ==
    CASE o.kind = "WithFileName" -> WithFileName(lg, o.path)
      [] o.kind = "WithMaxSize" -> WithMaxSize(lg, o.n)
      [] o.kind = "WithMaxBackup" -> WithMaxBackup(lg, o.n)
      [] o.kind = "WithMaxAge" -> WithMaxAge(lg, o.n)
      [] o.kind = "WithCompress" -> WithCompress(lg, o.b)
      [] o.kind = "WithLevel" -> WithLevel(lg, o.s)
      [] o.kind = "WithTimeZone" -> WithTimeZone(lg, o.b)

RECURSIVE applyAll(_, _)
\* for _, opt := range opts { opt.apply(logger) }
applyAll(lg, os) ==
    IF os = <<>> THEN lg ELSE applyAll(apply(lg, Head(os)), Tail(os))

(***************************************************************************)
(* Building the zap logger.                                                *)
(***************************************************************************)
\* The lumberjack Filename getWriter derives.
getWriter(lg, now) == ReplaceAll(lg.fileName, "logs.log", FormatLogName(now))

\* zap.New(core, AddCaller(), AddCallerSkip(1), AddStacktrace(ErrorLevel))
zapNew(lg, level, now) ==
    [ level |-> level, file |-> getWriter(lg, now), callerSkip |-> 1 ]

\* l.once.Do(func() { l.Log = zap.New(...) }) run by one goroutine alone:
\* f runs only while the gate is open, and closes it.
onceDo(lg, level, now) ==
    IF lg.once.done THEN lg
    ELSE [lg EXCEPT !.Log = zapNew(lg, level, now), !.once.done = TRUE]

\* custom() going on to build, at the default level, after the diagnostic.
customBuildsAnyway(lg, now) ==
    IF UnmarshalText(lg.level) = NoLevel
    THEN [lg |-> onceDo(lg, "info", now), printed |-> 1]
    ELSE [lg |-> onceDo(lg, UnmarshalText(lg.level), now), printed |-> 0]

\* custom(): [lg, printed], printed counting the diagnostic lines.
custom(lg, now) ==
    IF UnmarshalText(lg.level) = NoLevel
    THEN [lg |-> lg, printed |-> 1]
    ELSE [lg |-> onceDo(lg, UnmarshalText(lg.level), now), printed |-> 0]

\* The option lists the emission specifications build their Logger from: no
\* option, or any single one.
ShortOptionLists == { <<>> } \cup { <<o>> : o \in Options }

\* NewLogger(opts...), opts drawn from `lists'.
newLoggerCall(lists) ==
    /\ pc = "start"
    /\ \E os \in lists :
         LET r == custom(applyAll(newDefaultLogger, os), today)
         IN /\ opts' = os
            /\ l' = r.lg
            /\ diag' = diag + r.printed
    /\ pc' = "ready"
    /\ call' = [fn |-> "NewLogger"]
    /\ recs' = <<>>
    /\ UNCHANGED <<today, g, heap, th>>

NewLogger == newLoggerCall(OptionLists)

NewLoggerShort == newLoggerCall(ShortOptionLists)

RECURSIVE AddDays(_, _)
AddDays(t, k) == IF k = 0 THEN t ELSE AddDays(NextDate(t), k - 1)

\* The calendar day changes (time.Now() moves on).
AdvanceDay ==
    /\ pc \in {"start", "ready"}
    /\ today # AddDays(StartDate, MaxDay)
    /\ today' = NextDate(today)
    /\ UNCHANGED <<pc, opts, l, diag, call, recs, g, heap, th>>

(***************************************************************************)
(* Emission through the zap logger.                                        *)
(***************************************************************************)
\* The frame zap reports as caller: callerSkip frames above the function
\* that called the zap method (stack[1]).
zapCaller(stack, skip) ==
    IF 1 + skip >= 1 /\ 1 + skip <= Len(stack) THEN stack[1 + skip] ELSE NoCaller

\* One call of z.Debug/Info/Warn/Error/Fatal(msg, fields...) made with the
\* Go stack `stack' (zap's own frames left out).
zapLog(z, lvl, msg, fields, stack) ==
    [ level   |-> lvl,
      msg     |-> msg,
      fields  |-> fields,
      caller  |-> zapCaller(stack, z.callerSkip),
      enabled |-> LevelRank(lvl) >= LevelRank(z.level),
      file    |-> z.file,
      day     |-> today ]

Field(k, v) == [key |-> k, val |-> v]

\* json.Marshal on the values the model passes: a map marshals, a channel
\* does not (b stays nil, so string(b) is the empty string).
Marshal(value) ==
    CASE value = "map" -> [err |-> "", b |-> "{\"key\":\"value\"}"]
      [] value = "nil" -> [err |-> "", b |-> "null"]
      [] value = "chan" -> [err |-> "json: unsupported type: chan int", b |-> ""]

JSONValues == {"map", "chan"}

\* jsonString dropping the marshal error without a record.
jsonStringSilent(z, value, stack) == [out |-> Marshal(value).b, recs |-> <<>>]

\* l.jsonString(value), called by the function on top of `stack':
\* [out, recs], recs the record it logs itself.
jsonString(z, value, stack) ==
    LET r == Marshal(value)
    IN [ out  |-> r.b,
         recs |-> IF r.err # ""
                  THEN <<zapLog(z, "error", "Logger",
                                <<Field("JSON marshal error", r.err)>>,
                                <<Frame("pkg", "jsonString")>> \o stack)>>
                  ELSE <<>> ]

\* What every facade call does to the state: a nil l.Log is dereferenced
\* (panic), a fatal record ends the process after it is written.
Emitted(c, rs) ==
    /\ call' = c
    /\ recs' = rs
    /\ pc' = IF \E i \in 1..Len(rs) : rs[i].level = "fatal" THEN "exited" ELSE "ready"
    /\ UNCHANGED <<opts, l, diag, today, g, heap, th>>

\* A nil *zap.Logger is dereferenced.
Panicked(c) ==
    /\ call' = c
    /\ recs' = <<>>
    /\ pc' = "panicked"
    /\ UNCHANGED <<opts, l, diag, today, g, heap, th>>

FieldLists == { <<Field("message", "text")>> }

\* Debug/Info/Warn/Error/Fatal(moduleName, fields...)
levelMethod(fn, lvl) ==
    /\ pc = "ready"
    /\ \E us \in UserStacks, fields \in FieldLists :
         LET c == [fn |-> fn, kind |-> "level", us |-> us]
         IN IF l.Log = Nil THEN Panicked(c)
            ELSE Emitted(c, <<zapLog(l.Log, lvl, "Module", fields,
                                     <<Frame("pkg", fn)>> \o us)>>)

Debug == levelMethod("Debug", "debug")
Info == levelMethod("Info", "info")
Warn == levelMethod("Warn", "warn")
Error == levelMethod("Error", "error")
Fatal == levelMethod("Fatal", "fatal")

\* DebugString .. FatalString(moduleName, name, msg)
stringMethod(fn, lvl) ==
    /\ pc = "ready"
    /\ \E us \in UserStacks :
         LET c == [fn |-> fn, kind |-> "string", us |-> us]
         IN IF l.Log = Nil THEN Panicked(c)
            ELSE Emitted(c, <<zapLog(l.Log, lvl, "Module", <<Field("name", "msg")>>,
                                     <<Frame("pkg", fn)>> \o us)>>)

DebugString == stringMethod("DebugString", "debug")
InfoString == stringMethod("InfoString", "info")
WarnStringAtError == stringMethod("WarnString", "error")
WarnString == stringMethod("WarnString", "warn")
ErrorString == stringMethod("ErrorString", "error")
FatalString == stringMethod("FatalString", "fatal")

\* DebugJSON .. FatalJSON(moduleName, name, value): jsonString runs first
\* (it is an argument of the zap call), then the record itself.
jsonMethod(fn, lvl) ==
    /\ pc = "ready"
    /\ \E us \in UserStacks, value \in JSONValues :
         LET c == [fn |-> fn, kind |-> "json", us |-> us, value |-> value]
             st == <<Frame("pkg", fn)>> \o us
         IN IF l.Log = Nil THEN Panicked(c)
            ELSE LET js == jsonString(l.Log, value, st)
                 IN Emitted(c, js.recs \o
                      <<zapLog(l.Log, lvl, "Module", <<Field("name", js.out)>>, st)>>)

DebugJSON == jsonMethod("DebugJSON", "debug")
InfoJSON == jsonMethod("InfoJSON", "info")
WarnJSON == jsonMethod("WarnJSON", "warn")
ErrorJSON == jsonMethod("ErrorJSON", "error")
FatalJSON == jsonMethod("FatalJSON", "fatal")

\* Dump(value, message...)
Dump ==
    /\ pc = "ready"
    /\ \E us \in UserStacks, value \in JSONValues, message \in {<<>>, <<"TestDump">>} :
         LET c == [fn |-> "Dump", kind |-> "dump", us |-> us,
                   value |-> value, message |-> message]
             st == <<Frame("pkg", "Dump")>> \o us
         IN IF l.Log = Nil THEN Panicked(c)
            ELSE LET js == jsonString(l.Log, value, st)
                     key == IF Len(message) > 0 THEN message[1] ELSE "data"
                 IN Emitted(c, js.recs \o
                      <<zapLog(l.Log, "warn", "Dump", <<Field(key, js.out)>>, st)>>)

FacadeErrors == {NoErr, <<"os.ErrNotExist">>}

\* LogIf/LogWarnIf/LogInfoIf(err): nothing is touched when err is nil.
logIfMethod(fn, lvl) ==
    /\ pc = "ready"
    /\ \E us \in UserStacks, err \in FacadeErrors :
         LET c == [fn |-> fn, kind |-> "logif", us |-> us, err |-> err]
         IN IF err = NoErr THEN Emitted(c, <<>>)
            ELSE IF l.Log = Nil THEN Panicked(c)
            ELSE Emitted(c, <<zapLog(l.Log, lvl, "Error Occurred:",
                                     <<Field("error", err)>>,
                                     <<Frame("pkg", fn)>> \o us)>>)

LogIf == logIfMethod("LogIf", "error")
LogWarnIf == logIfMethod("LogWarnIf", "warn")
LogInfoIf == logIfMethod("LogInfoIf", "info")

(***************************************************************************)
(* The gorm adapter.                                                       *)
(***************************************************************************)
MaxGormOpts == 1    \* longest option list handed to NewGormLogger
MaxWrap == 13       \* most library frames between the adapter and its caller

Millisecond == 1000000      \* time.Millisecond, in nanoseconds
FirstFrame == 2             \* for i := 2; ...
FrameLimit == 15            \* ...; i < 15; i++

ErrRecordNotFound == "gorm.ErrRecordNotFound"

\* errors.Is over an error chain.
errorsIs(err, target) == \E i \in 1..Len(err) : err[i] = target

WithSlowThreshold(gl, times) == [gl EXCEPT !.SlowThreshold = times]

RECURSIVE gormApplyAll(_, _)
\* for _, opt := range opts { opt.apply(log) }
gormApplyAll(gl, os) ==
    IF os = <<>> THEN gl ELSE gormApplyAll(WithSlowThreshold(gl, Head(os)), Tail(os))

\* NewGormLogger(logger, opts...), opts the thresholds of WithSlowThreshold.
newGormLogger(lg, os) ==
    gormApplyAll([ZapLogger |-> lg.Log, SlowThreshold |-> 200 * Millisecond], os)

Thresholds == {0, 300 * Millisecond}

GormOptionLists == UNION { [1..n -> Thresholds] : n \in 0..MaxGormOpts }

NewGormLogger ==
    /\ pc = "ready"
    /\ g = Nil
    /\ \E os \in GormOptionLists :
         /\ g' = newGormLogger(l, os)
         /\ call' = [fn |-> "NewGormLogger", gopts |-> os]
    /\ recs' = <<>>
    /\ UNCHANGED <<pc, opts, l, diag, today, heap, th>>

\* LogMode(level): a copy of the adapter, whatever the level.
LogMode ==
    /\ pc = "ready"
    /\ g # Nil
    /\ \E level \in {"Silent", "Info"} :
         /\ g' = [ZapLogger |-> g.ZapLogger, SlowThreshold |-> g.SlowThreshold]
         /\ call' = [fn |-> "LogMode", level |-> level]
    /\ recs' = <<>>
    /\ UNCHANGED <<pc, opts, l, diag, today, heap, th>>

\* microsecondsStr: fmt.Sprintf("%.3fms", float64(ns)/1e6), the value
\* rounded to a thousandth of a millisecond.
microsecondsStr(elapsed) ==
    LET us == (elapsed + 500) \div 1000
    IN <<us \div 1000, ".">> \o Digits(us % 1000, 3) \o <<"ms">>

\* zap.AddCallerSkip(n) through WithOptions.
AddCallerSkip(z, n) == [z EXCEPT !.callerSkip = @ + n]

\* runtime.Caller(i) inside logger(): stack[1] is logger() itself.
runtimeCaller(stack, i) ==
    IF i + 1 <= Len(stack) THEN [ok |-> TRUE, file |-> stack[i + 1].file]
    ELSE [ok |-> FALSE, file |-> ""]

\* The switch of logger(): TRUE when frame i falls to the default case.
isCallerFrame(stack, i) ==
    LET c == runtimeCaller(stack, i)
    IN /\ c.ok
       /\ c.file # "test"       \* strings.HasSuffix(file, "_test.go")
       /\ c.file # "gorm"       \* strings.Contains(file, gormPackage)
       /\ c.file # "zapgorm"    \* strings.Contains(file, zapGormPackage)

RECURSIVE loggerLoop(_, _, _, _)
loggerLoop(gl, clone, stack, i) ==
    IF i >= FrameLimit THEN gl.ZapLogger
    ELSE IF isCallerFrame(stack, i) THEN AddCallerSkip(clone, i)
    ELSE loggerLoop(gl, clone, stack, i + 1)

\* logger() taking off one frame where the code takes off two.
loggerSkipOff(gl, stack) ==
    loggerLoop(gl, AddCallerSkip(gl.ZapLogger, -1),
               <<Frame("pkg", "logger")>> \o stack, FirstFrame)

\* l.logger() called by the adapter method on top of `stack'.
logger(gl, stack) ==
    loggerLoop(gl, AddCallerSkip(gl.ZapLogger, -2),
               <<Frame("pkg", "logger")>> \o stack, FirstFrame)

\* z.Sugar().Debugf/Warnf/Errorf(str, args...): Sugar() adds two to the
\* caller skip, and the record is made two frames deeper.
sugarLog(z, lvl, str, args, stack) ==
    zapLog(AddCallerSkip(z, 2), lvl, <<str>> \o args, <<>>,
           <<Frame("std", "SugaredLogger.log"), Frame("std", "SugaredLogger.logf")>>
               \o stack)

\* The sentinel compared with ==, which a wrapped error fails.
isNotFoundBare(err) == err = <<ErrRecordNotFound>>

\* errors.Is(err, gorm.ErrRecordNotFound)
isNotFound(err) == errorsIs(err, ErrRecordNotFound)

\* The comparison with >= in place of >.
isSlowOrEqual(gl, elapsed) == gl.SlowThreshold # 0 /\ elapsed >= gl.SlowThreshold

\* l.SlowThreshold != 0 && elapsed > l.SlowThreshold
isSlow(gl, elapsed) == gl.SlowThreshold # 0 /\ elapsed > gl.SlowThreshold

\* The records of one Trace call made from the stack us.
traceRecords(gl, elapsed, sql, rows, err, us) ==
    LET st == <<Frame("pkg", "Trace")>> \o us
        logFields == <<Field("sql", sql), Field("time", microsecondsStr(elapsed)),
                       Field("rows", rows)>>
        withErr == IF err # NoErr /\ ~isNotFound(err)
                   THEN Append(logFields, Field("error", err))
                   ELSE logFields
        classified ==
            IF err = NoErr THEN <<>>
            ELSE IF isNotFound(err)
            THEN <<zapLog(logger(gl, st), "warn", "Database ErrRecordNotFound",
                          logFields, st)>>
            ELSE <<zapLog(logger(gl, st), "error", "Database Error", withErr, st)>>
        slow ==
            IF isSlow(gl, elapsed)
            THEN <<zapLog(logger(gl, st), "warn", "Database Slow Log", withErr, st)>>
            ELSE <<>>
    IN classified \o slow
         \o <<zapLog(logger(gl, st), "debug", "Database Query", withErr, st)>>

Wrapper(p, i) ==
    Frame(CASE p = "gorm" -> "gorm"
            [] p = "mixed" /\ i % 3 = 1 -> "gorm"
            [] p = "mixed" /\ i % 3 = 2 -> "zapgorm"
            [] p = "mixed" /\ i % 3 = 0 -> "test",
          "wrapper")

Wrap(n, p) == [i \in 1..n |-> Wrapper(p, i)]

AppTail ==
    <<Frame("app", "repo.Find"), Frame("app", "main.main"), Frame("std", "runtime.main")>>

TestTail == <<Frame("test", "TestGormLogger"), Frame("std", "testing.tRunner")>>

\* The stacks the library calls the adapter from: n library frames over
\* application or test code.
LibraryStacks ==
    { Wrap(n, "gorm") \o AppTail : n \in 0..MaxWrap }
    \cup { Wrap(n, "mixed") \o AppTail : n \in {2, 3, MaxWrap} }
    \cup { Wrap(n, "gorm") \o TestTail : n \in 1..2 }

\* The stacks of a call made by the callback fc that Trace runs (gorm.go:78).
CallbackStacks ==
    { <<Frame(k, "fc"), Frame("pkg", "Trace")>> \o Wrap(2, "gorm") \o AppTail :
        k \in {"gorm", "test"} }

AdapterStacks == LibraryStacks \cup CallbackStacks

Elapsed == { 200 * Millisecond, 250 * Millisecond, 301 * Millisecond }

GormErrors ==
    { NoErr, <<ErrRecordNotFound>>, <<"fmt.wrapError", ErrRecordNotFound>>,
      <<"driver.ErrBadConn">> }

\* Trace(ctx, begin, fc, err)
Trace ==
    /\ pc = "ready"
    /\ g # Nil
    /\ \E us \in AdapterStacks, elapsed \in Elapsed, err \in GormErrors :
         LET c == [fn |-> "Trace", us |-> us, elapsed |-> elapsed, err |-> err]
         IN IF g.ZapLogger = Nil THEN Panicked(c)
            ELSE Emitted(c, traceRecords(g, elapsed, "SELECT 1", 1, err, us))

\* Info/Warn/Error(ctx, str, args...) of the adapter, logged at lvl.
gormMethod(fn, lvl) ==
    /\ pc = "ready"
    /\ g # Nil
    /\ \E us \in AdapterStacks :
         LET c == [fn |-> fn, us |-> us]
             st == <<Frame("pkg", fn)>> \o us
         IN IF g.ZapLogger = Nil THEN Panicked(c)
            ELSE Emitted(c, <<sugarLog(logger(g, st), lvl, "%v", <<"arg">>, st)>>)

GormInfo == gormMethod("GormLogger.Info", "debug")
GormWarn == gormMethod("GormLogger.Warn", "warn")
GormError == gormMethod("GormLogger.Error", "error")

\* The option lists the adapter's specification builds the Logger from.
GormLoggerLists ==
    { <<>>, <<[kind |-> "WithLevel", s |-> "debug"]>>,
      <<[kind |-> "WithLevel", s |-> "verbose"]>> }

NewLoggerForGorm == newLoggerCall(GormLoggerLists)

(***************************************************************************)
(* Concurrent initialisation: goroutines that call NewLogger, or custom()  *)
(* on a Logger they share (custom is package-private, so the second kind   *)
(* of caller is code of this package).  sync.Once is a done flag and a     *)
(* mutex: Do checks the flag, doSlow locks, checks again, runs f, sets the *)
(* flag (the later defer) and unlocks.                                     *)
(***************************************************************************)
NumCallers == 2     \* goroutines
MaxRuns == 3        \* initialisations started, over all goroutines

Callers == 1..NumCallers

\* Address 0 holds a Logger made outside NewLogger; address t the Logger
\* goroutine t's NewLogger allocates.
Addresses == 0..NumCallers

OnceLists == { <<>>, <<[kind |-> "WithLevel", s |-> "verbose"]>> }

\* A goroutine: its position, the Logger it initialises and through which
\* entry, the level custom() parsed, the initialisations it has finished, and
\* what its last call returned to ([addr, Log, builds], Nil before).
Idle == [pc |-> "idle", obj |-> 0, via |-> "none", level |-> NoLevel, runs |-> 0,
         seen |-> Nil]

InitOnce ==
    /\ pc = "start"
    /\ opts = <<>>
    /\ l = Nil
    /\ diag = 0
    /\ today = StartDate
    /\ call = [fn |-> "none"]
    /\ recs = <<>>
    /\ g = Nil
    /\ \E os \in OnceLists :
         heap = [a \in Addresses |->
                   IF a = 0 THEN [obj |-> applyAll(newDefaultLogger, os), builds |-> 0]
                   ELSE Nil]
    /\ th = [t \in Callers |-> Idle]

RECURSIVE RunsOf(_)
RunsOf(n) ==
    IF n = 0 THEN 0
    ELSE RunsOf(n - 1) + th[n].runs + (IF th[n].pc = "idle" THEN 0 ELSE 1)

\* The initialisations started so far: those that returned and those under way.
Started == RunsOf(NumCallers)

OnceStep(t, nextpc) ==
    /\ th' = [th EXCEPT ![t].pc = nextpc]
    /\ UNCHANGED <<pc, opts, l, today, call, recs, g>>

\* NewLogger(opts...) up to its call of custom(): a fresh Logger.
CallNewLogger(t) ==
    /\ th[t].pc = "idle"
    /\ Started < MaxRuns
    /\ heap[t] = Nil
    /\ \E os \in OnceLists :
         heap' = [heap EXCEPT ![t] = [obj |-> applyAll(newDefaultLogger, os), builds |-> 0]]
    /\ th' = [th EXCEPT ![t].pc = "custom", ![t].obj = t, ![t].via = "NewLogger",
                        ![t].level = NoLevel]
    /\ UNCHANGED <<pc, opts, l, diag, today, call, recs, g>>

\* The Loggers a goroutine can hold: the shared one, and those a NewLogger
\* call has returned.
Published ==
    {0} \cup { a \in Callers : /\ heap[a] # Nil
                                /\ ~(th[a].pc # "idle" /\ th[a].via = "NewLogger") }

\* custom() called again on a Logger that exists.
CallCustom(t) ==
    /\ th[t].pc = "idle"
    /\ Started < MaxRuns
    /\ \E a \in Published :
         th' = [th EXCEPT ![t].pc = "custom", ![t].obj = a, ![t].via = "custom",
                          ![t].level = NoLevel]
    /\ UNCHANGED <<pc, opts, l, diag, today, call, recs, g, heap>>

\* custom(): level.UnmarshalText, the diagnostic and the early return.
customParse(t) ==
    /\ th[t].pc = "custom"
    /\ LET lvl == UnmarshalText(heap[th[t].obj].obj.level)
       IN IF lvl = NoLevel
          THEN /\ diag' = diag + 1
               /\ th' = [th EXCEPT ![t].pc = "return"]
          ELSE /\ diag' = diag
               /\ th' = [th EXCEPT ![t].pc = "onceDo", ![t].level = lvl]
    /\ UNCHANGED <<pc, opts, l, today, call, recs, g, heap>>

\* Once.Do: if o.done.Load() == 0 { o.doSlow(f) }
onceDoFast(t) ==
    /\ th[t].pc = "onceDo"
    /\ OnceStep(t, IF heap[th[t].obj].obj.once.done THEN "return" ELSE "lock")
    /\ UNCHANGED <<diag, heap>>

\* doSlow: o.m.Lock()
onceLock(t) ==
    /\ th[t].pc = "lock"
    /\ heap[th[t].obj].obj.once.m = 0
    /\ heap' = [heap EXCEPT ![th[t].obj].obj.once.m = t]
    /\ OnceStep(t, "doSlow")
    /\ UNCHANGED diag

\* doSlow without its second look at the flag.
onceRecheckMissing(done) == "build"

\* The position after doSlow's second look at the flag, under the lock.
onceRecheck(done) == IF done THEN "unlock" ELSE "build"

\* doSlow: if o.done.Load() == 0 { defer o.done.Store(1); f() }
onceDoSlow(t) ==
    /\ th[t].pc = "doSlow"
    /\ OnceStep(t, onceRecheck(heap[th[t].obj].obj.once.done))
    /\ UNCHANGED <<diag, heap>>

\* f(): l.Log = zap.New(...)
onceBuild(t) ==
    /\ th[t].pc = "build"
    /\ heap' = [heap EXCEPT
                  ![th[t].obj].obj.Log = zapNew(heap[th[t].obj].obj, th[t].level, today),
                  ![th[t].obj].builds = @ + 1]
    /\ OnceStep(t, "store")
    /\ UNCHANGED diag

\* The deferred o.done.Store(1)
onceStore(t) ==
    /\ th[t].pc = "store"
    /\ heap' = [heap EXCEPT ![th[t].obj].obj.once.done = TRUE]
    /\ OnceStep(t, "unlock")
    /\ UNCHANGED diag

\* The deferred o.m.Unlock()
onceUnlock(t) ==
    /\ th[t].pc = "unlock"
    /\ heap' = [heap EXCEPT ![th[t].obj].obj.once.m = 0]
    /\ OnceStep(t, "return")
    /\ UNCHANGED diag

\* custom() returns, and the caller looks at l.Log.
customReturn(t) ==
    /\ th[t].pc = "return"
    /\ th' = [th EXCEPT ![t].pc = "idle", ![t].runs = @ + 1,
                        ![t].seen = [addr |-> th[t].obj,
                                     Log |-> heap[th[t].obj].obj.Log,
                                     builds |-> heap[th[t].obj].builds]]
    /\ UNCHANGED <<pc, opts, l, diag, today, call, recs, g, heap>>

NextOnce ==
    \E t \in Callers :
        \/ CallNewLogger(t) \/ CallCustom(t) \/ customParse(t)
        \/ onceDoFast(t) \/ onceLock(t) \/ onceDoSlow(t) \/ onceBuild(t)
        \/ onceStore(t) \/ onceUnlock(t) \/ customReturn(t)

SpecOnce == InitOnce /\ [][NextOnce]_vars

Init ==
    /\ pc = "start"
    /\ opts = <<>>
    /\ l = Nil
    /\ diag = 0
    /\ today = StartDate
    /\ call = [fn |-> "none"]
    /\ recs = <<>>
    /\ g = Nil
    /\ heap = <<>>
    /\ th = <<>>

(***************************************************************************)
(* Spec: construction.  NewLogger over every option list, on any day.      *)
(***************************************************************************)
Next == NewLogger \/ AdvanceDay

Spec == Init /\ [][Next]_vars

(***************************************************************************)
(* SpecFacade: a Logger built from a short option list, then any sequence  *)
(* of facade calls and day changes.                                        *)
(***************************************************************************)
NextFacade ==
    \/ NewLoggerShort \/ AdvanceDay
    \/ Debug \/ Info \/ Warn \/ Error \/ Fatal
    \/ DebugString \/ InfoString \/ WarnString \/ ErrorString \/ FatalString
    \/ DebugJSON \/ InfoJSON \/ WarnJSON \/ ErrorJSON \/ FatalJSON
    \/ Dump \/ LogIf \/ LogWarnIf \/ LogInfoIf

SpecFacade == Init /\ [][NextFacade]_vars

(***************************************************************************)
(* SpecGorm: a Logger, an adapter over it, then any sequence of adapter    *)
(* calls.                                                                  *)
(***************************************************************************)
NextGorm ==
    \/ NewLoggerForGorm \/ NewGormLogger \/ LogMode
    \/ Trace \/ GormInfo \/ GormWarn \/ GormError

SpecGorm == Init /\ [][NextGorm]_vars

(***************************************************************************)
(* Properties of construction (Spec).                                      *)
(***************************************************************************)
\* The value the last option of kind k in os gives to its field, d if no
\* option of os names that field.
LastSet(os, k, d) ==
    LET at == { i \in 1..Len(os) : os[i].kind = k }
    IN IF at = {} THEN d
       ELSE LET o == os[CHOOSE i \in at : \A j \in at : j <= i]
            IN CASE k = "WithFileName" -> o.path
                 [] k \in {"WithMaxSize", "WithMaxBackup", "WithMaxAge"} -> o.n
                 [] k \in {"WithCompress", "WithTimeZone"} -> o.b
                 [] k = "WithLevel" -> o.s

\* The configuration an option list yields over the defaults d.
ConfigFrom(os, d) ==
    [ fileName  |-> LastSet(os, "WithFileName", d.fileName),
      maxSize   |-> LastSet(os, "WithMaxSize", d.maxSize),
      maxBackup |-> LastSet(os, "WithMaxBackup", d.maxBackup),
      maxAge    |-> LastSet(os, "WithMaxAge", d.maxAge),
      compress  |-> LastSet(os, "WithCompress", d.compress),
      level     |-> LastSet(os, "WithLevel", d.level),
      localTime |-> LastSet(os, "WithTimeZone", d.localTime) ]

ConfigOf(lg) ==
    [ fileName |-> lg.fileName, maxSize |-> lg.maxSize, maxBackup |-> lg.maxBackup,
      maxAge |-> lg.maxAge, compress |-> lg.compress, level |-> lg.level,
      localTime |-> lg.localTime ]

\* The defaults as the specification states them: UTC, local-time flag off.
StatedDefaults ==
    [ fileName |-> <<"logs/", "logs.log">>, maxSize |-> 100, maxBackup |-> 7,
      maxAge |-> 30, compress |-> FALSE, level |-> "info", localTime |-> FALSE ]

\* C5: the configuration NewLogger(opts...) returns is the stated default
\* configuration (logs/logs.log, 100 MB, 7 backups, 30 days, no compression,
\* UTC, level info) with each field set by the last option that names it.
C5_ConfigIsStatedDefaultsPlusOptions ==
    pc = "ready" => ConfigOf(l) = ConfigFrom(opts, StatedDefaults)

\* The text is a spelling of one of zap's levels, in either case, or empty.
NamesALevel(s) ==
    \/ s \in {"", "debug", "info", "warn", "error", "dpanic", "panic", "fatal"}
    \/ s \in {"DEBUG", "INFO", "WARN", "ERROR", "DPANIC", "PANIC", "FATAL", "Error"}

\* C7: NewLogger with a level text that names no level neither panics nor
\* exits; it prints one diagnostic and returns a Logger with Log nil, the
\* once gate unconsumed and every field as the options set it.
C7_InvalidLevelLeavesLoggerUnbuilt ==
    (pc # "start" /\ ~NamesALevel(LastSet(opts, "WithLevel", "info"))) =>
        /\ pc = "ready"
        /\ diag = 1
        /\ l.Log = Nil
        /\ l.once.done = FALSE
        /\ ConfigOf(l) = ConfigFrom(opts, ConfigOf(newDefaultLogger))

C7_Witness ==
    /\ pc = "ready"
    /\ Len(opts) = 2
    /\ opts[1] = [kind |-> "WithLevel", s |-> "verbose"]
    /\ opts[2].kind = "WithFileName"
    /\ l.Log = Nil

(***************************************************************************)
(* Properties of the facade (SpecFacade).                                  *)
(***************************************************************************)
EmissionKinds == {"level", "string", "json", "dump", "logif"}

\* The last call was an emission method called so that it logs.
Emitting ==
    /\ pc # "start"
    /\ call.fn # "NewLogger"
    /\ call.fn # "none"
    /\ call.kind \in EmissionKinds
    /\ (call.kind = "logif" => call.err # NoErr)

ValidLevels == {"debug", "info", "warn", "error", "fatal"}

\* The level each facade method logs at.
MethodLevel(fn) ==
    CASE fn \in {"Debug", "DebugString", "DebugJSON"} -> "debug"
      [] fn \in {"Info", "InfoString", "InfoJSON", "LogInfoIf"} -> "info"
      [] fn \in {"Warn", "WarnString", "WarnJSON", "LogWarnIf", "Dump"} -> "warn"
      [] fn \in {"Error", "ErrorString", "ErrorJSON", "LogIf"} -> "error"
      [] fn \in {"Fatal", "FatalString", "FatalJSON"} -> "fatal"

MarshalFails == call.kind \in {"json", "dump"} /\ call.value = "chan"

\* C4 as stated: with a valid level, every emission call returns without a
\* panic and hands exactly one record to the logger.
C4_ExactlyOneRecordPerCall ==
    (Emitting /\ l.level \in ValidLevels) => (pc # "panicked" /\ Len(recs) = 1)

\* C4 as amended: with a valid level, every emission call returns without a
\* panic and hands the logger exactly one record of its own, at the
\* method's level and let through by the core exactly when that level is
\* at or above the configured one; a Dump/*JSON call whose value cannot be
\* marshaled hands over one more record before it, and no other call does.
C4_OneOwnRecordPerCall ==
    (Emitting /\ l.level \in ValidLevels) =>
        /\ pc # "panicked"
        /\ Len(recs) = IF MarshalFails THEN 2 ELSE 1
        /\ recs[Len(recs)].level = MethodLevel(call.fn)
        /\ \A i \in 1..Len(recs) :
             recs[i].enabled <=> LevelRank(recs[i].level) >= LevelRank(l.level)

C4_Witness ==
    /\ Emitting
    /\ l.level = "error"
    /\ call.fn = "Dump"
    /\ call.message # <<>>
    /\ ~MarshalFails
    /\ Len(recs) = 1
    /\ ~recs[1].enabled

\* C8: when the value cannot be marshaled, Dump and the *JSON methods do
\* not panic; they log one error-level record about the failure first and
\* then their own record, at their own level, with the empty string as value.
C8_MarshalFailureIsLoggedNotRaised ==
    (pc # "start" /\ call.fn # "NewLogger" /\ MarshalFails /\ l.Log # Nil) =>
        /\ pc # "panicked"
        /\ (MethodLevel(call.fn) # "fatal" => pc = "ready")
        /\ Len(recs) = 2
        /\ recs[1].level = "error"
        /\ recs[1].msg = "Logger"
        /\ recs[1].fields[1].key = "JSON marshal error"
        /\ recs[2].level = MethodLevel(call.fn)
        /\ recs[2].msg # "Logger"
        /\ Len(recs[2].fields) = 1
        /\ recs[2].fields[1].val = ""

C8_Witness ==
    /\ pc = "ready"
    /\ call.fn = "InfoJSON"
    /\ MarshalFails
    /\ Len(recs) = 2

\* The first frame of a stack that lies outside this package's own code and
\* outside the database library and its shim.
RECURSIVE FirstOutside(_)
FirstOutside(stack) ==
    IF stack = <<>> THEN NoCaller
    ELSE IF Head(stack).file \notin {"pkg", "gorm", "zapgorm"} THEN Head(stack)
    ELSE FirstOutside(Tail(stack))

\* C6 (facade): the caller of every record is the first frame outside the
\* logging package and the database library.
C6_CallerIsFirstOutsideFrame ==
    (pc # "start" /\ call.fn # "NewLogger") =>
        \A i \in 1..Len(recs) : recs[i].caller = FirstOutside(call.us)

\* C9: a record emitted on day D goes to the file stamped with D.
C9_RecordGoesToItsDaysFile ==
    (pc # "start" /\ call.fn # "NewLogger") =>
        \A i \in 1..Len(recs) :
            recs[i].file = ReplaceAll(l.fileName, "logs.log", FormatLogName(recs[i].day))

(***************************************************************************)
(* Properties of the adapter (SpecGorm).                                   *)
(***************************************************************************)
\* The last call was Trace on an adapter whose zap logger is built.
Traced == pc # "start" /\ call.fn = "Trace" /\ g.ZapLogger # Nil

\* The records of the last call with the message tag m.
Tagged(m) == { i \in 1..Len(recs) : recs[i].msg = m }

AtLevel(lvl) == { i \in 1..Len(recs) : recs[i].level = lvl }

Keys(fields) == [i \in 1..Len(fields) |-> fields[i].key]

WrapsNotFound(err) ==
    err \in { <<"gorm.ErrRecordNotFound">>, <<"fmt.wrapError", "gorm.ErrRecordNotFound">> }

\* C1: Trace with a non-nil error hands over exactly one classification
\* record: for "record not found" (bare or wrapped) a warn record tagged
\* not-found with the fields sql, time, rows and no error-level record; for
\* any other error one error-level record with the error as a fourth field
\* and no not-found record.  When elapsed does not exceed the threshold no
\* slow record is made and the debug "query" record follows directly.
C1_ErrorClassification ==
    (Traced /\ call.err # NoErr) =>
        /\ pc = "ready"
        /\ IF WrapsNotFound(call.err)
           THEN /\ Cardinality(Tagged("Database ErrRecordNotFound")) = 1
                /\ recs[1].msg = "Database ErrRecordNotFound"
                /\ recs[1].level = "warn"
                /\ Keys(recs[1].fields) = <<"sql", "time", "rows">>
                /\ AtLevel("error") = {}
           ELSE /\ AtLevel("error") = {1}
                /\ recs[1].msg = "Database Error"
                /\ Keys(recs[1].fields) = <<"sql", "time", "rows", "error">>
                /\ recs[1].fields[4].val = call.err
                /\ Tagged("Database ErrRecordNotFound") = {}
        /\ (call.elapsed <= g.SlowThreshold =>
              /\ Tagged("Database Slow Log") = {}
              /\ Len(recs) = 2
              /\ recs[2].level = "debug"
              /\ recs[2].msg = "Database Query")

C1_Witness ==
    /\ Traced
    /\ call.err = <<"fmt.wrapError", "gorm.ErrRecordNotFound">>
    /\ call.elapsed = 250 * Millisecond
    /\ g.SlowThreshold = 300 * Millisecond
    /\ Len(recs) = 2
    /\ recs[1].level = "warn"
    /\ recs[1].fields[2].val = <<250, ".", 0, 0, 0, "ms">>

\* C2: Trace hands over a warn "slow" record exactly when the threshold is
\* nonzero and elapsed is strictly greater, with or without an error, and
\* never more than one; without an error, 250ms against 200ms gives two
\* records, the slow one and then the debug one.
C2_SlowIffOverNonzeroThreshold ==
    Traced =>
        /\ pc = "ready"
        /\ (Tagged("Database Slow Log") # {}
              <=> (g.SlowThreshold # 0 /\ call.elapsed > g.SlowThreshold))
        /\ Cardinality(Tagged("Database Slow Log")) <= 1
        /\ \A i \in Tagged("Database Slow Log") : recs[i].level = "warn"
        /\ (call.err # NoErr => Len(recs) = 2 + Cardinality(Tagged("Database Slow Log")))
        /\ ((call.err = NoErr /\ call.elapsed = 250 * Millisecond
               /\ g.SlowThreshold = 200 * Millisecond) =>
              /\ Len(recs) = 2
              /\ recs[1].level = "warn" /\ recs[1].msg = "Database Slow Log"
              /\ recs[2].level = "debug" /\ recs[2].msg = "Database Query")

C2_Witness ==
    /\ Traced
    /\ call.err = <<"driver.ErrBadConn">>
    /\ call.elapsed = 250 * Millisecond
    /\ g.SlowThreshold = 200 * Millisecond
    /\ Len(recs) = 3
    /\ recs[1].level = "error"
    /\ recs[2].msg = "Database Slow Log"

\* The last call was an emitting method of an adapter over a built logger.
AdapterCalled ==
    /\ pc # "start"
    /\ call.fn \in {"Trace", "GormLogger.Info", "GormLogger.Warn", "GormLogger.Error"}
    /\ g.ZapLogger # Nil

\* Frame positions 2 through 14 of runtime.Caller are positions 1 through 13
\* of the stack the adapter method was called from.
Chosen(us, excluded) ==
    { j \in 1..13 : j <= Len(us) /\ us[j].file \notin excluded }

First(S) == CHOOSE j \in S : \A k \in S : j <= k

\* The caller the records must carry when the frames of `excluded' are
\* passed over: the first other frame in range, else what the unmodified
\* logger reports, the adapter method's own caller.
ExpectedCaller(us, excluded) ==
    IF Chosen(us, excluded) # {} THEN us[First(Chosen(us, excluded))] ELSE us[1]

FallbackReached ==
    /\ AdapterCalled
    /\ Chosen(call.us, {"gorm", "zapgorm", "test"}) = {}
    /\ Len(recs) >= 1

(***************************************************************************)
(* Properties of concurrent initialisation (SpecOnce).                     *)
(***************************************************************************)
Allocated == { a \in Addresses : heap[a] # Nil }

\* What the goroutines' last calls returned to, for the Loggers whose level
\* parses.
Returned ==
    { r \in { th[t].seen : t \in { u \in Callers : th[u].seen # Nil } } :
        heap[r.addr].obj.level # "verbose" }

\* C3 as stated: however many callers build concurrently, the zap logger is
\* constructed once in all and every caller holds that one instance.
C3_OneInstanceForAllCallers ==
    /\ Cardinality({ a \in Allocated \cap Callers : heap[a].builds > 0 }) <= 1
    /\ \A r1, r2 \in Returned : (r1.addr # 0 /\ r2.addr # 0) => r1.Log = r2.Log /\ r1.addr = r2.addr

\* C3 as amended, the state part: each Logger's zap logger is constructed at
\* most once however many callers initialise that Logger concurrently; a
\* caller returns from a Logger whose level parses only after that build
\* has completed, and the callers of one Logger hold the same instance;
\* each NewLogger call has a Logger, and so an instance, of its own.
OncePerLogger ==
    /\ \A a \in Allocated :
         /\ heap[a].builds <= 1
         /\ (heap[a].obj.Log # Nil <=> heap[a].builds = 1)
         /\ (heap[a].obj.once.done => heap[a].obj.Log # Nil)
    /\ \A r \in Returned :
         /\ r.builds = 1
         /\ r.Log # Nil
         /\ r.Log = heap[r.addr].obj.Log
         /\ heap[r.addr].obj.once.done

\* C3 as amended, the step part: the gate never reopens and a built
\* instance is never replaced.
GateMonotonic ==
    \A a \in Allocated :
        /\ (heap[a].obj.once.done => heap'[a].obj.once.done)
        /\ (heap[a].obj.Log # Nil => heap'[a].obj.Log = heap[a].obj.Log)

\* C3 as amended: per Logger the build happens at most once, callers return
\* after it and share its instance, and the gate is monotonic.
C3_OnceBuildPerLogger == []OncePerLogger /\ [][GateMonotonic]_vars

C3_Witness ==
    /\ \E t1, t2 \in Callers :
         /\ t1 # t2
         /\ th[t1].seen # Nil /\ th[t2].seen # Nil
         /\ th[t1].seen.addr = 0
         /\ th[t2].seen.addr = 0
         /\ th[t1].runs = 1 /\ th[t2].runs = 1
         /\ th[t1].seen.Log # Nil
         /\ th[t1].seen.Log = th[t2].seen.Log
    /\ heap[0].builds = 1
====
